---- MODULE Spec2Model ----
(***************************************************************************)
(* FileBot: the account registry, the subscription ledger, the storage     *)
(* accountant and the payment-ticket workflow of the bot, as state         *)
(* machines over the relational store of src/database.py and the handlers  *)
(* of src/admin_handlers.py, src/bot.py and src/tickets.py.                *)
(*                                                                         *)
(* A table is a set of rows (records); a SERIAL key is a counter.  One     *)
(* action is one handler or one store operation, run to completion, except *)
(* in the specifications about concurrent requests, where one action is    *)
(* one SQL statement: the store's methods take a pooled connection and     *)
(* never open a transaction, so every statement commits on its own.        *)
(***************************************************************************)
EXTENDS Integers, Sequences, FiniteSets, TLC

\* ------------------------------------------------------------------ bounds
MaxLogs == 2          \* rows of admin_logs
MaxSubs == 2          \* rows ever inserted into subscriptions
MaxFiles == 1         \* rows ever inserted into files
MaxTickets == 2       \* rows ever inserted into payment_tickets
MaxMenus == 2         \* plan menus on show in one chat
MaxTime == 2          \* days the clock advances
MaxExpiry == 3        \* the latest expiry date a renewal may set

\* --------------------------------------------------------- configuration
\* AdminHandlers.admin_id: the ADMIN_USER_ID of the environment.
admin_id == 1
\* AdminHandlers.secret_code: the SECRET_CODE of the environment.
secret_code == "2008"

\* The identities of the chat transport: the main administrator and one
\* other account.
UserIds == {admin_id, 2}
\* The texts a user may send while the bot awaits the secret code.
Texts == {secret_code, "0000"}
\* The display names of the chat transport.
Names == {"ann", "bob"}

VARIABLES
    users,            \* table users: user_id -> row (present = FALSE: no row)
    fsm,              \* aiogram FSM state of each chat (admin_handlers.py)
    conv,             \* ConversationHandler state of each chat (bot.py)
    admin_logs,       \* table admin_logs, in log_id order
    subscriptions,    \* table subscriptions
    sub_seq,          \* the SERIAL of subscriptions.sub_id
    files,            \* table files
    file_seq,         \* the SERIAL of files.file_id
    now,              \* the clock: datetime.now(), CURRENT_TIMESTAMP
    payment_tickets,  \* table payment_tickets
    ticket_seq,       \* the counter behind the generated ticket ids
    reqs,             \* the plan menus on show in each chat (tickets.py)
    procs,            \* the store calls in flight, one per concurrent request
    bcast,            \* the broadcast in hand: confirm_broadcast's locals
    last              \* the last handled event: operation, actor, target, outcome

ledgerVars == <<subscriptions, sub_seq, files, file_seq, now>>
\* The rows that reference users(user_id) ON DELETE CASCADE.
childTables == <<subscriptions, files, payment_tickets>>
\* What no handler of the account registry writes.
acctFrame == <<sub_seq, file_seq, now, ticket_seq, reqs, procs, bcast>>
vars == <<users, fsm, conv, admin_logs, subscriptions, sub_seq, files, file_seq,
          now, payment_tickets, ticket_seq, reqs, procs, bcast, last>>

\* ------------------------------------------------------------ table users
NoRow ==
    [present |-> FALSE, username |-> "", is_approved |-> FALSE,
     is_admin |-> FALSE, is_banned |-> FALSE]

\* INSERT INTO users (...) VALUES (...) with the column defaults.
NewRow(name) ==
    [present |-> TRUE, username |-> name, is_approved |-> FALSE,
     is_admin |-> FALSE, is_banned |-> FALSE]

\* The upsert as a replacement of the row: the flags go back to the column
\* defaults.
create_user_replacing(tbl, user_id, name) == [tbl EXCEPT ![user_id] = NewRow(name)]

\* Database.create_user: INSERT ... ON CONFLICT (user_id) DO UPDATE SET the
\* display fields.
create_user(tbl, user_id, name) ==
    IF tbl[user_id].present
    THEN [tbl EXCEPT ![user_id].username = name]
    ELSE [tbl EXCEPT ![user_id] = NewRow(name)]

\* Database.approve_user: UPDATE users SET is_approved = TRUE WHERE user_id.
db_approve_user(tbl, user_id) ==
    IF tbl[user_id].present
    THEN [tbl EXCEPT ![user_id].is_approved = TRUE]
    ELSE tbl

\* The ban UPDATE without is_approved = FALSE.
db_ban_user_keeps_approval(tbl, user_id) ==
    IF tbl[user_id].present
    THEN [tbl EXCEPT ![user_id].is_banned = TRUE]
    ELSE tbl

\* Database.ban_user: UPDATE users SET is_banned = TRUE, is_approved = FALSE.
db_ban_user(tbl, user_id) ==
    IF tbl[user_id].present
    THEN [tbl EXCEPT ![user_id].is_banned = TRUE, ![user_id].is_approved = FALSE]
    ELSE tbl

\* The unban UPDATE without is_approved = TRUE.
db_unban_user_keeps_approval(tbl, user_id) ==
    IF tbl[user_id].present
    THEN [tbl EXCEPT ![user_id].is_banned = FALSE]
    ELSE tbl

\* Database.unban_user: UPDATE users SET is_banned = FALSE, is_approved = TRUE.
db_unban_user(tbl, user_id) ==
    IF tbl[user_id].present
    THEN [tbl EXCEPT ![user_id].is_banned = FALSE, ![user_id].is_approved = TRUE]
    ELSE tbl

\* INSERT INTO users (..., is_admin, is_approved) VALUES (..., TRUE, TRUE)
\* ON CONFLICT (user_id) DO UPDATE SET is_admin = TRUE, is_approved = TRUE
\* (verify_secret; init_tables' default admin).
promote(tbl, user_id, name) ==
    IF tbl[user_id].present
    THEN [tbl EXCEPT ![user_id].is_admin = TRUE, ![user_id].is_approved = TRUE]
    ELSE [tbl EXCEPT ![user_id] =
              [NewRow(name) EXCEPT !.is_admin = TRUE, !.is_approved = TRUE]]

\* admin_start's upsert of the main admin: as promote, and the conflict
\* branch refreshes the display fields too.
promote_main(tbl, user_id, name) ==
    [promote(tbl, user_id, name) EXCEPT ![user_id].username = name]

\* AdminHandlers.is_admin: the configured administrator identity.
is_admin(user_id) == user_id = admin_id

\* The is_admin=True filter of the admin commands (register_handlers); the
\* filter class is not part of the sources.  Account Registry isAdmin: a
\* lookup of the account's admin flag.
AdminFilter(user_id) == users[user_id].present /\ users[user_id].is_admin

\* INSERT INTO admin_logs (admin_id, action, target_user_id, ...).
LogRow(admin, action, target) ==
    [admin_id |-> admin, action |-> action, target_user_id |-> target]

Event(op, actor, target, result) ==
    [op |-> op, actor |-> actor, target |-> target, result |-> result]

\* No confirm_broadcast is running.
NoBroadcast ==
    [pc |-> "idle", admin |-> 0, users |-> <<>>, i |-> 1, successful |-> 0,
     failed |-> 0, attempted |-> <<>>, report |-> FALSE]

\* ------------------------------------------------- registration (bot.py)
\* start: /start.
start(u, name) ==
    /\ IF is_admin(u)
       THEN /\ UNCHANGED <<users, conv>>
            /\ last' = Event("start", u, u, "admin_panel")
       ELSE /\ users' = create_user(users, u, name)
            /\ IF users'[u].is_approved
               THEN /\ UNCHANGED conv
                    /\ last' = Event("start", u, u, "main_menu")
               ELSE /\ conv' = [conv EXCEPT ![u] = "WAITING_FOR_DETAILS"]
                    /\ last' = Event("start", u, u, "ask_details")
    /\ UNCHANGED <<fsm, admin_logs, childTables, acctFrame>>

\* handle_user_details: the text sent in WAITING_FOR_DETAILS.  wellFormed:
\* two lines, the first starting with "@".
handle_user_details(u, wellFormed) ==
    /\ conv[u] = "WAITING_FOR_DETAILS"
    /\ IF ~wellFormed
       THEN /\ UNCHANGED <<users, conv>>
            /\ last' = Event("handle_user_details", u, u, "retry")
       ELSE /\ users' = db_approve_user(users, u)
            /\ conv' = [conv EXCEPT ![u] = "END"]
            /\ last' = Event("handle_user_details", u, u, "submitted")
    /\ UNCHANGED <<fsm, admin_logs, childTables, acctFrame>>

\* ------------------------------------- admin authentication (admin_handlers)
\* admin_start: /admin, in any state.
admin_start(u, name) ==
    /\ IF users[u].present /\ users[u].is_admin
       THEN /\ UNCHANGED users
            /\ fsm' = [fsm EXCEPT ![u] = "none"]
            /\ last' = Event("admin_start", u, u, "admin_panel")
       ELSE IF u = admin_id
       THEN /\ users' = promote_main(users, u, name)
            /\ fsm' = [fsm EXCEPT ![u] = "none"]
            /\ last' = Event("admin_start", u, u, "main_admin")
       ELSE /\ UNCHANGED users
            /\ fsm' = [fsm EXCEPT ![u] = "AWAITING_SECRET"]
            /\ last' = Event("admin_start", u, u, "ask_secret")
    /\ UNCHANGED <<conv, admin_logs, childTables, acctFrame>>

\* verify_secret's test with every text taken for the code.
code_accepted_any(text) == TRUE

\* verify_secret's test: message.text == self.secret_code.
code_accepted(text) == text = secret_code

\* The event of verify_secret: it keeps the text that was sent.
SecretEvent(u, text, result) ==
    [op |-> "verify_secret", actor |-> u, target |-> u, result |-> result,
     text |-> text]

\* verify_secret: the message sent in AWAITING_SECRET.
verify_secret(u, text, name) ==
    /\ fsm[u] = "AWAITING_SECRET"
    /\ IF code_accepted(text)
       THEN /\ Len(admin_logs) < MaxLogs
            /\ users' = promote(users, u, name)
            /\ admin_logs' = Append(admin_logs, LogRow(u, "admin_promotion", u))
            /\ last' = SecretEvent(u, text, "promoted")
       ELSE /\ UNCHANGED <<users, admin_logs>>
            /\ last' = SecretEvent(u, text, "denied")
    /\ fsm' = [fsm EXCEPT ![u] = "none"]
    /\ UNCHANGED <<conv, childTables, acctFrame>>

\* ------------------------------------------ approval, rejection, ban, unban
\* AdminHandlers.approve_user: the UPDATE and the log INSERT each commit;
\* the confirmation then reads user['username'], which raises for no row.
approve_user(op, admin, user_id) ==
    /\ Len(admin_logs) < MaxLogs
    /\ users' = db_approve_user(users, user_id)
    /\ admin_logs' = Append(admin_logs, LogRow(admin, "user_approval", user_id))
    /\ last' = Event(op, admin, user_id,
                     IF users[user_id].present THEN "approved" ELSE "error")
    /\ UNCHANGED childTables

\* AdminHandlers.reject_user: DELETE FROM users (the rows that reference the
\* user go with it), then the log INSERT.
reject_user(op, admin, user_id) ==
    /\ Len(admin_logs) < MaxLogs
    /\ users' = [users EXCEPT ![user_id] = NoRow]
    /\ subscriptions' = {s \in subscriptions : s.user_id # user_id}
    /\ files' = {f \in files : f.user_id # user_id}
    /\ payment_tickets' = {t \in payment_tickets : t.user_id # user_id}
    /\ admin_logs' = Append(admin_logs, LogRow(admin, "user_rejection", user_id))
    /\ last' = Event(op, admin, user_id, "rejected")

\* AdminHandlers.ban_user.
ban_user(op, admin, user_id) ==
    /\ Len(admin_logs) < MaxLogs
    /\ users' = db_ban_user(users, user_id)
    /\ admin_logs' = Append(admin_logs, LogRow(admin, "user_ban", user_id))
    /\ last' = Event(op, admin, user_id, "banned")
    /\ UNCHANGED childTables

\* AdminHandlers.unban_user.
unban_user(op, admin, user_id) ==
    /\ Len(admin_logs) < MaxLogs
    /\ users' = db_unban_user(users, user_id)
    /\ admin_logs' = Append(admin_logs, LogRow(admin, "user_unban", user_id))
    /\ last' = Event(op, admin, user_id, "unbanned")
    /\ UNCHANGED childTables

\* approve_command: /approve <user_id>, behind the is_admin filter.
approve_command(actor, user_id) ==
    /\ AdminFilter(actor)
    /\ approve_user("approve_command", actor, user_id)
    /\ UNCHANGED <<fsm, conv, acctFrame>>

\* ban_command: /ban <user_id>, behind the is_admin filter.
ban_command(actor, user_id) ==
    /\ AdminFilter(actor)
    /\ ban_user("ban_command", actor, user_id)
    /\ UNCHANGED <<fsm, conv, acctFrame>>

\* unban_command: /unban <user_id>, behind the is_admin filter.
unban_command(actor, user_id) ==
    /\ AdminFilter(actor)
    /\ unban_user("unban_command", actor, user_id)
    /\ UNCHANGED <<fsm, conv, acctFrame>>

\* handle_approval_decision: a callback query whose data starts with
\* "approve_" or "reject_"; registered on the data alone.
handle_approval_decision(actor, decision, user_id) ==
    /\ IF decision = "approve"
       THEN approve_user("handle_approval_decision", actor, user_id)
       ELSE reject_user("handle_approval_decision", actor, user_id)
    /\ UNCHANGED <<fsm, conv, acctFrame>>

\* ---------------------------------------------------------- specification
\* init_tables: empty tables and the default admin of ADMIN_USER_ID.
Init ==
    /\ users = [u \in UserIds |->
                   IF u = admin_id
                   THEN [NewRow("admin") EXCEPT !.is_admin = TRUE, !.is_approved = TRUE]
                   ELSE NoRow]
    /\ fsm = [u \in UserIds |-> "none"]
    /\ conv = [u \in UserIds |-> "END"]
    /\ admin_logs = <<>>
    /\ subscriptions = {} /\ sub_seq = 0
    /\ files = {} /\ file_seq = 0
    /\ now = 0
    /\ payment_tickets = {} /\ ticket_seq = 0
    /\ reqs = <<>>
    /\ procs = <<>>
    /\ bcast = NoBroadcast
    /\ last = Event("init", 0, 0, "none")

Next ==
    \/ \E u \in UserIds, name \in Names : start(u, name)
    \/ \E u \in UserIds, w \in BOOLEAN : handle_user_details(u, w)
    \/ \E u \in UserIds, name \in Names : admin_start(u, name)
    \/ \E u \in UserIds, t \in Texts, name \in Names : verify_secret(u, t, name)
    \/ \E a \in UserIds, u \in UserIds : approve_command(a, u)
    \/ \E a \in UserIds, u \in UserIds : ban_command(a, u)
    \/ \E a \in UserIds, u \in UserIds : unban_command(a, u)
    \/ \E a \in UserIds, d \in {"approve", "reject"}, u \in UserIds :
           handle_approval_decision(a, d, u)

Spec == Init /\ [][Next]_vars

\* ------------------------------------------------- table subscriptions
\* Sizes are counted in MiB: file_size / (1024 ** 3) GB is file_size_mib /
\* MiBPerGB GB, and storage_used_gb is kept as its numerator over MiBPerGB
\* (sums of such binary fractions are exact in a FLOAT column).
MiBPerGB == 1024
\* handle_file_upload's limit: 2 * 1024 * 1024 * 1024 bytes.
MaxUploadMiB == 2 * MiBPerGB

\* The arguments of create_subscription: plan_type, storage_limit_gb,
\* duration_days.
Offers ==
    {[plan_type |-> "monthly", storage_limit_gb |-> 1, duration_days |-> 1],
     [plan_type |-> "quarterly", storage_limit_gb |-> 2, duration_days |-> 2],
     [plan_type |-> "quarterly-with-a-promotional-name-of-fifty-one-char",
      storage_limit_gb |-> 2, duration_days |-> 2]}
\* subscriptions.plan_type is a VARCHAR(50).
PlanTypeMaxLen == 50
\* The sizes of the files a user may send, in MiB.
FileSizes == {512, 1536, MaxUploadMiB + 1}

\* SELECT ... FROM subscriptions WHERE user_id = $1 AND is_active = TRUE.
ActiveRows(subs, user_id) == {s \in subs : s.user_id = user_id /\ s.is_active}

\* UPDATE subscriptions SET is_active = FALSE WHERE user_id = $1 AND
\* is_active = TRUE, with the deactivation left out.
deactivate_skipped(subs, user_id) == subs

\* create_subscription's first statement: UPDATE subscriptions SET is_active =
\* FALSE WHERE user_id = $1 AND is_active = TRUE.
deactivate(subs, user_id) ==
    {IF s.user_id = user_id /\ s.is_active THEN [s EXCEPT !.is_active = FALSE] ELSE s :
        s \in subs}

\* create_subscription's second statement: the INSERT, with the column
\* defaults storage_used_gb = 0 and is_active = TRUE.
insert_subscription(subs, seq, user_id, o, t) ==
    subs \cup {[sub_id |-> seq + 1, user_id |-> user_id, plan_type |-> o.plan_type,
                storage_limit_gb |-> o.storage_limit_gb, storage_used_mib |-> 0,
                expiry_date |-> t + o.duration_days, is_active |-> TRUE]}

\* Whether the store accepts create_subscription's INSERT: the user_id has a
\* users row (foreign key) and the plan_type fits its column.  A refused
\* INSERT raises, and create_subscription returns False.
InsertAccepted(user_id, o) ==
    users[user_id].present /\ Len(o.plan_type) <= PlanTypeMaxLen

\* Database.update_storage_usage with 'remove' subtracting without GREATEST.
update_storage_usage_unclamped(subs, user_id, size_mib, operation) ==
    {IF s.user_id = user_id /\ s.is_active
     THEN IF operation = "add"
          THEN [s EXCEPT !.storage_used_mib = @ + size_mib]
          ELSE IF operation = "remove"
          THEN [s EXCEPT !.storage_used_mib = @ - size_mib]
          ELSE s
     ELSE s : s \in subs}

\* Database.update_storage_usage.
update_storage_usage(subs, user_id, size_mib, operation) ==
    {IF s.user_id = user_id /\ s.is_active
     THEN IF operation = "add"
          THEN [s EXCEPT !.storage_used_mib = @ + size_mib]
          ELSE IF operation = "remove"
          THEN [s EXCEPT !.storage_used_mib = IF @ - size_mib > 0 THEN @ - size_mib ELSE 0]
          ELSE s
     ELSE s : s \in subs}

\* check_storage_available's comparison with > in place of >=.
StorageAvailable_strict(s, size_mib) ==
    s.storage_limit_gb * MiBPerGB - s.storage_used_mib > size_mib

\* check_storage_available's comparison on the row it fetched:
\* storage_limit_gb - storage_used_gb >= file_size_gb.
StorageAvailable(s, size_mib) ==
    s.storage_limit_gb * MiBPerGB - s.storage_used_mib >= size_mib

\* What stays as it is in an operation of the ledger.
ledgerFrame ==
    <<users, fsm, conv, admin_logs, payment_tickets, ticket_seq, reqs, procs, bcast>>

\* Database.create_subscription, called alone: both statements, each
\* committing on its own; when the INSERT is refused the UPDATE stays.
create_subscription(user_id, o) ==
    /\ sub_seq < MaxSubs
    /\ IF InsertAccepted(user_id, o)
       THEN /\ subscriptions' =
                   insert_subscription(deactivate(subscriptions, user_id), sub_seq,
                                       user_id, o, now)
            /\ sub_seq' = sub_seq + 1
            /\ last' = Event("create_subscription", user_id, sub_seq + 1, "True")
       ELSE /\ subscriptions' = deactivate(subscriptions, user_id)
            /\ UNCHANGED sub_seq
            /\ last' = Event("create_subscription", user_id, 0, "False")
    /\ UNCHANGED <<files, file_seq, now, ledgerFrame>>

\* Database.check_storage_available: reads one active row, writes nothing.
check_storage_available(user_id, size_mib) ==
    /\ IF ActiveRows(subscriptions, user_id) = {}
       THEN last' = Event("check_storage_available", user_id, size_mib, "False")
       ELSE \E s \in ActiveRows(subscriptions, user_id) :
                last' = Event("check_storage_available", user_id, size_mib,
                              IF StorageAvailable(s, size_mib) THEN "True" ELSE "False")
    /\ UNCHANGED <<ledgerVars, ledgerFrame>>

\* add_file's INSERT INTO files ... RETURNING file_id.
insert_file(fs, seq, user_id, size_mib) ==
    fs \cup {[file_id |-> seq + 1, user_id |-> user_id, file_size |-> size_mib]}

\* Database.add_file: the INSERT into files, then update_storage_usage 'add'.
add_file(user_id, size_mib) ==
    /\ files' = insert_file(files, file_seq, user_id, size_mib)
    /\ file_seq' = file_seq + 1
    /\ subscriptions' = update_storage_usage(subscriptions, user_id, size_mib, "add")

\* handle_file_upload (bot.py): the 2GB gate, then add_file.  A file of a
\* user_id without a users row violates the foreign key, and the handler
\* answers with its error message.
handle_file_upload(u, size_mib) ==
    /\ file_seq < MaxFiles
    /\ IF size_mib > MaxUploadMiB
       THEN /\ UNCHANGED <<files, file_seq, subscriptions>>
            /\ last' = Event("handle_file_upload", u, size_mib, "too_large")
       ELSE IF ~users[u].present
       THEN /\ UNCHANGED <<files, file_seq, subscriptions>>
            /\ last' = Event("handle_file_upload", u, size_mib, "error")
       ELSE /\ add_file(u, size_mib)
            /\ last' = Event("handle_file_upload", u, size_mib, "uploaded")
    /\ UNCHANGED <<sub_seq, now, ledgerFrame>>

\* delete_file's checks: the file exists, and belongs to the caller when a
\* caller is given (caller = 0 is user_id = None).
delete_file_permitted(fs, file_id, caller) ==
    \E f \in fs : f.file_id = file_id /\ ~(caller # 0 /\ f.user_id # caller)

\* DELETE FROM files WHERE file_id = $1.
delete_file_rows(fs, file_id) == {f \in fs : f.file_id # file_id}

\* delete_file with its storage update left out.
delete_file_usage_skipped(subs, file) == subs

\* delete_file's storage update: update_storage_usage(file['user_id'],
\* file['file_size'] / (1024 ** 3), 'remove').
delete_file_usage(subs, file) ==
    update_storage_usage(subs, file.user_id, file.file_size, "remove")

\* Database.delete_file.
delete_file(file_id, caller) ==
    /\ IF ~delete_file_permitted(files, file_id, caller)
       THEN /\ UNCHANGED <<files, subscriptions>>
            /\ last' = Event("delete_file", caller, file_id, "False")
       ELSE LET file == CHOOSE f \in files : f.file_id = file_id IN
            /\ files' = delete_file_rows(files, file_id)
            /\ subscriptions' = delete_file_usage(subscriptions, file)
            /\ last' = Event("delete_file", caller, file_id, "True")
    /\ UNCHANGED <<sub_seq, file_seq, now, ledgerFrame>>

\* The store once user 2 has registered and been approved.
InitLedger ==
    /\ users = [u \in UserIds |->
                   IF u = admin_id
                   THEN [NewRow("admin") EXCEPT !.is_admin = TRUE, !.is_approved = TRUE]
                   ELSE [NewRow("ann") EXCEPT !.is_approved = TRUE]]
    /\ fsm = [u \in UserIds |-> "none"]
    /\ conv = [u \in UserIds |-> "END"]
    /\ admin_logs = <<>>
    /\ subscriptions = {} /\ sub_seq = 0
    /\ files = {} /\ file_seq = 0
    /\ now = 0
    /\ payment_tickets = {} /\ ticket_seq = 0
    /\ reqs = <<>>
    /\ procs = <<>>
    /\ bcast = NoBroadcast
    /\ last = Event("init", 0, 0, "none")

NextLedger ==
    \/ \E u \in UserIds, o \in Offers : create_subscription(u, o)
    \/ \E u \in UserIds, z \in FileSizes : check_storage_available(u, z)
    \/ \E u \in UserIds, z \in FileSizes : handle_file_upload(u, z)
    \/ \E f \in 1..MaxFiles, c \in UserIds \cup {0} : delete_file(f, c)

SpecLedger == InitLedger /\ [][NextLedger]_vars

\* ------------------------------------------------ renewal and expiry
\* The duration_days of a renewal.
RenewDays == {1, 2}
\* The plan_type of a renewal.
RenewPlans == {"monthly", "quarterly"}

\* renew_subscription's new expiry, with the extension always made from the
\* current expiry.
new_expiry_stacked(expiry_date, t, duration_days) == expiry_date + duration_days

\* renew_subscription's new expiry: from the current expiry when that is
\* later than datetime.now(), from now otherwise.
new_expiry(expiry_date, t, duration_days) ==
    IF expiry_date > t THEN expiry_date + duration_days ELSE t + duration_days

\* Database.renew_subscription: reads one active row (current), then sets
\* plan_type and expiry_date of the account's active rows.  The event keeps
\* the duration and the expiry that was read.
renew_subscription(user_id, plan_type, duration_days) ==
    /\ IF ActiveRows(subscriptions, user_id) = {}
       THEN /\ UNCHANGED subscriptions
            /\ last' = Event("renew_subscription", user_id,
                             [duration_days |-> duration_days, current |-> 0], "False")
       ELSE \E current \in ActiveRows(subscriptions, user_id) :
                LET expiry == new_expiry(current.expiry_date, now, duration_days) IN
                /\ expiry <= MaxExpiry
                /\ subscriptions' =
                       {IF s.user_id = user_id /\ s.is_active
                        THEN [s EXCEPT !.plan_type = plan_type, !.expiry_date = expiry]
                        ELSE s : s \in subscriptions}
                /\ last' = Event("renew_subscription", user_id,
                                 [duration_days |-> duration_days,
                                  current |-> current.expiry_date], "True")
    /\ UNCHANGED <<sub_seq, files, file_seq, now, ledgerFrame>>

\* The sweep's WHERE clause with <= in place of <.
expired_inclusive(s, t) == s.is_active /\ s.expiry_date <= t

\* cleanup_expired_subscriptions' WHERE clause: is_active = TRUE AND
\* expiry_date < CURRENT_TIMESTAMP.
expired(s, t) == s.is_active /\ s.expiry_date < t

\* The sweep with its UPDATE left out.
deactivate_expired_skipped(subs, t) == subs

\* The sweep's UPDATE subscriptions SET is_active = FALSE WHERE ...
deactivate_expired(subs, t) ==
    {IF expired(s, t) THEN [s EXCEPT !.is_active = FALSE] ELSE s : s \in subs}

\* Database.cleanup_expired_subscriptions: the UPDATE ... RETURNING 1; the
\* event's target is the COUNT(*) of the updated rows, which it returns.
cleanup_expired_subscriptions ==
    /\ subscriptions' = deactivate_expired(subscriptions, now)
    /\ last' = Event("cleanup_expired_subscriptions", 0,
                     Cardinality({s \in subscriptions : expired(s, now)}), "count")
    /\ UNCHANGED <<sub_seq, files, file_seq, now, ledgerFrame>>

\* The clock advances by a day.
Tick ==
    /\ now < MaxTime
    /\ now' = now + 1
    /\ last' = Event("tick", 0, 0, "none")
    /\ UNCHANGED <<subscriptions, sub_seq, files, file_seq, ledgerFrame>>

NextRenew ==
    \/ \E u \in UserIds, o \in Offers : create_subscription(u, o)
    \/ \E u \in UserIds, pl \in RenewPlans, d \in RenewDays : renew_subscription(u, pl, d)
    \/ cleanup_expired_subscriptions
    \/ Tick

SpecRenew == InitLedger /\ [][NextRenew]_vars

\* The ledger with the sweep as a periodic background task: subscriptions
\* are created, looked up by uploads and expire as the clock runs, and a
\* sweep that has something to deactivate is not put off for ever.
NextSweep ==
    \/ \E u \in UserIds, o \in Offers : create_subscription(u, o)
    \/ \E u \in UserIds, z \in FileSizes : check_storage_available(u, z)
    \/ cleanup_expired_subscriptions
    \/ Tick

SpecSweep ==
    InitLedger /\ [][NextSweep]_vars /\ WF_subscriptions(cleanup_expired_subscriptions)

\* ----------------------------------- concurrent calls of create_subscription
\* The requests served at once: coroutines of one event loop, each holding
\* its own pooled connection; a coroutine yields at every awaited statement.
Procs == {1, 2}

Idle == [pc |-> "idle", user_id |-> 0, arg |-> 0, start_date |-> 0]

\* What stays as it is in a statement of a concurrent call.
callFrame == <<users, fsm, conv, admin_logs, files, file_seq, now, payment_tickets,
               ticket_seq, reqs, bcast>>

\* The calls still to insert a row.
InFlight == {p \in Procs : procs[p].pc # "idle"}

\* create_subscription is called: start_date = datetime.now().
create_subscription_call(p, user_id, o) ==
    /\ procs[p].pc = "idle"
    /\ sub_seq + Cardinality(InFlight) < MaxSubs
    /\ procs' = [procs EXCEPT ![p] = [pc |-> "update", user_id |-> user_id, arg |-> o,
                                      start_date |-> now]]
    /\ last' = Event("create_subscription_call", user_id, p, "awaiting")
    /\ UNCHANGED <<subscriptions, sub_seq, callFrame>>

\* The awaited UPDATE of the call commits.
create_subscription_update(p) ==
    /\ procs[p].pc = "update"
    /\ subscriptions' = deactivate(subscriptions, procs[p].user_id)
    /\ procs' = [procs EXCEPT ![p].pc = "insert"]
    /\ last' = Event("create_subscription_update", procs[p].user_id, p, "awaiting")
    /\ UNCHANGED <<sub_seq, callFrame>>

\* The awaited INSERT of the call commits, and the call returns.
create_subscription_insert(p) ==
    /\ procs[p].pc = "insert"
    /\ IF InsertAccepted(procs[p].user_id, procs[p].arg)
       THEN /\ subscriptions' =
                   insert_subscription(subscriptions, sub_seq, procs[p].user_id,
                                       procs[p].arg, procs[p].start_date)
            /\ sub_seq' = sub_seq + 1
            /\ last' = Event("create_subscription", procs[p].user_id, sub_seq + 1, "True")
       ELSE /\ UNCHANGED <<subscriptions, sub_seq>>
            /\ last' = Event("create_subscription", procs[p].user_id, 0, "False")
    /\ procs' = [procs EXCEPT ![p] = Idle]
    /\ UNCHANGED callFrame

InitActivate ==
    /\ users = [u \in UserIds |->
                   IF u = admin_id
                   THEN [NewRow("admin") EXCEPT !.is_admin = TRUE, !.is_approved = TRUE]
                   ELSE [NewRow("ann") EXCEPT !.is_approved = TRUE]]
    /\ fsm = [u \in UserIds |-> "none"]
    /\ conv = [u \in UserIds |-> "END"]
    /\ admin_logs = <<>>
    /\ subscriptions = {} /\ sub_seq = 0
    /\ files = {} /\ file_seq = 0
    /\ now = 0
    /\ payment_tickets = {} /\ ticket_seq = 0
    /\ reqs = <<>>
    /\ procs = [p \in Procs |-> Idle]
    /\ bcast = NoBroadcast
    /\ last = Event("init", 0, 0, "none")

NextActivate ==
    \/ \E p \in Procs, u \in UserIds, o \in Offers : create_subscription_call(p, u, o)
    \/ \E p \in Procs : create_subscription_update(p)
    \/ \E p \in Procs : create_subscription_insert(p)

SpecActivate == InitActivate /\ [][NextActivate]_vars

\* ------------------------------- concurrent reserve, commit and release
\* An upload request reserves: check_storage_available(user_id, size).
reserve(p, user_id, size_mib) ==
    /\ procs[p].pc = "idle"
    /\ IF ActiveRows(subscriptions, user_id) = {}
       THEN /\ UNCHANGED procs
            /\ last' = Event("reserve", user_id, size_mib, "False")
       ELSE \E s \in ActiveRows(subscriptions, user_id) :
                IF StorageAvailable(s, size_mib)
                THEN /\ procs' = [procs EXCEPT ![p] =
                                     [pc |-> "commit", user_id |-> user_id,
                                      arg |-> size_mib, start_date |-> 0]]
                     /\ last' = Event("reserve", user_id, size_mib, "True")
                ELSE /\ UNCHANGED procs
                     /\ last' = Event("reserve", user_id, size_mib, "False")
    /\ UNCHANGED <<subscriptions, sub_seq, callFrame>>

\* The request commits what it reserved: update_storage_usage(user_id, size,
\* 'add').
commit(p) ==
    /\ procs[p].pc = "commit"
    /\ subscriptions' =
           update_storage_usage(subscriptions, procs[p].user_id, procs[p].arg, "add")
    /\ procs' = [procs EXCEPT ![p] = Idle]
    /\ last' = Event("commit", procs[p].user_id, procs[p].arg, "True")
    /\ UNCHANGED <<sub_seq, callFrame>>

\* A release: update_storage_usage(user_id, size, 'remove').
release(user_id, size_mib) ==
    /\ subscriptions' = update_storage_usage(subscriptions, user_id, size_mib, "remove")
    /\ last' = Event("release", user_id, size_mib, "True")
    /\ UNCHANGED <<procs, sub_seq, callFrame>>

\* The sizes reserved and released, in MiB.
QuotaSizes == {512, 1536}

\* The offers whose INSERT the store accepts for an account.
AcceptedOffers == {o \in Offers : Len(o.plan_type) <= PlanTypeMaxLen}

\* Every account holds one active subscription, made by create_subscription.
InitQuota ==
    /\ users = [u \in UserIds |->
                   IF u = admin_id
                   THEN [NewRow("admin") EXCEPT !.is_admin = TRUE, !.is_approved = TRUE]
                   ELSE [NewRow("ann") EXCEPT !.is_approved = TRUE]]
    /\ fsm = [u \in UserIds |-> "none"]
    /\ conv = [u \in UserIds |-> "END"]
    /\ admin_logs = <<>>
    /\ \E o1, o2 \in AcceptedOffers :
          subscriptions =
              insert_subscription(insert_subscription({}, 0, admin_id, o1, 0), 1, 2, o2, 0)
    /\ sub_seq = 2
    /\ files = {} /\ file_seq = 0
    /\ now = 0
    /\ payment_tickets = {} /\ ticket_seq = 0
    /\ reqs = <<>>
    /\ procs = [p \in Procs |-> Idle]
    /\ bcast = NoBroadcast
    /\ last = Event("init", 0, 0, "none")

NextQuota ==
    \/ \E p \in Procs, u \in UserIds, z \in QuotaSizes : reserve(p, u, z)
    \/ \E p \in Procs : commit(p)
    \/ \E u \in UserIds, z \in QuotaSizes : release(u, z)

SpecQuota == InitQuota /\ [][NextQuota]_vars

\* ------------------------------------ concurrent calls of renew_subscription
\* renew_subscription up to its UPDATE: the awaited SELECT of the active row
\* and the new expiry computed from it; the call then awaits its UPDATE.
renew_subscription_read(p, user_id, plan_type, duration_days) ==
    /\ procs[p].pc \in {"idle", "returned"}
    /\ IF ActiveRows(subscriptions, user_id) = {}
       THEN /\ procs' = [procs EXCEPT ![p] = Idle]
            /\ last' = Event("renew_subscription", user_id, duration_days, "False")
       ELSE \E current \in ActiveRows(subscriptions, user_id) :
                LET expiry == new_expiry(current.expiry_date, now, duration_days) IN
                /\ expiry <= MaxExpiry
                /\ procs' = [procs EXCEPT ![p] =
                                [pc |-> "renew_update", user_id |-> user_id,
                                 arg |-> [plan_type |-> plan_type,
                                          duration_days |-> duration_days,
                                          current |-> current.expiry_date,
                                          new_expiry |-> expiry],
                                 start_date |-> now]]
                /\ last' = Event("renew_subscription_read", user_id, duration_days,
                                 "awaiting")
    /\ UNCHANGED <<subscriptions, sub_seq, callFrame>>

\* The awaited UPDATE of the call commits, with the expiry the call
\* computed, and the call returns True.
renew_subscription_update(p) ==
    /\ procs[p].pc = "renew_update"
    /\ subscriptions' =
           {IF s.user_id = procs[p].user_id /\ s.is_active
            THEN [s EXCEPT !.plan_type = procs[p].arg.plan_type,
                           !.expiry_date = procs[p].arg.new_expiry]
            ELSE s : s \in subscriptions}
    /\ procs' = [procs EXCEPT ![p].pc = "returned"]
    /\ last' = Event("renew_subscription", procs[p].user_id,
                     procs[p].arg.duration_days, "True")
    /\ UNCHANGED <<sub_seq, callFrame>>

\* Every account holds one active subscription, made by create_subscription
\* at day 0, and the clock stands at some later day.
InitRenewRace ==
    /\ users = [u \in UserIds |->
                   IF u = admin_id
                   THEN [NewRow("admin") EXCEPT !.is_admin = TRUE, !.is_approved = TRUE]
                   ELSE [NewRow("ann") EXCEPT !.is_approved = TRUE]]
    /\ fsm = [u \in UserIds |-> "none"]
    /\ conv = [u \in UserIds |-> "END"]
    /\ admin_logs = <<>>
    /\ \E o1, o2 \in AcceptedOffers :
          subscriptions =
              insert_subscription(insert_subscription({}, 0, admin_id, o1, 0), 1, 2, o2, 0)
    /\ sub_seq = 2
    /\ files = {} /\ file_seq = 0
    /\ now \in 0..MaxTime
    /\ payment_tickets = {} /\ ticket_seq = 0
    /\ reqs = <<>>
    /\ procs = [p \in Procs |-> Idle]
    /\ bcast = NoBroadcast
    /\ last = Event("init", 0, 0, "none")

NextRenewRace ==
    \/ \E p \in Procs, u \in UserIds, pl \in RenewPlans, d \in RenewDays :
           renew_subscription_read(p, u, pl, d)
    \/ \E p \in Procs : renew_subscription_update(p)

SpecRenewRace == InitRenewRace /\ [][NextRenewRace]_vars

\* --------------------------------------------------- payment tickets
\* tickets.PLAN_PRICES, in INR.
PLAN_PRICES == [monthly |-> 25, quarterly |-> 60, semiannual |-> 125, yearly |-> 275]

\* The callback data of the plan menu that the chats send: plan_map's keys
\* and "ticket_cancel".
plan_map == [ticket_monthly |-> "monthly", ticket_quarterly |-> "quarterly"]
MenuData == DOMAIN plan_map \cup {"ticket_cancel"}

\* The rows of get_user_tickets(user_id) that are open: a ticket is open
\* from its INSERT (status DEFAULT 'pending') until it is marked completed
\* or failed.
open_tickets(tbl, user_id) == {t \in tbl : t.user_id = user_id /\ t.status = "pending"}

\* Database.create_payment_ticket: the INSERT.
create_payment_ticket(tbl, ticket_id, user_id, plan_type, amount) ==
    tbl \cup {[ticket_id |-> ticket_id, user_id |-> user_id, plan_type |-> plan_type,
               amount |-> amount, status |-> "pending"]}

\* UPDATE payment_tickets SET status = $1 WHERE ticket_id = $2.
set_ticket_status(tbl, ticket_id, status) ==
    {IF t.ticket_id = ticket_id THEN [t EXCEPT !.status = status] ELSE t : t \in tbl}

\* What stays as it is in an operation on tickets.
ticketFrame == <<users, fsm, conv, admin_logs, subscriptions, sub_seq, files, file_seq,
                 now, procs, bcast>>

\* create_ticket_command: /ticket.
create_ticket_command(u) ==
    /\ IF ~(users[u].present /\ users[u].is_approved)
       THEN /\ UNCHANGED reqs
            /\ last' = Event("create_ticket_command", u, 0, "denied")
       ELSE IF open_tickets(payment_tickets, u) # {}
       THEN /\ UNCHANGED reqs
            /\ last' = Event("create_ticket_command", u, 0, "Conflict")
       ELSE /\ reqs[u] < MaxMenus
            /\ reqs' = [reqs EXCEPT ![u] = @ + 1]
            /\ last' = Event("create_ticket_command", u, 0, "menu")
    /\ UNCHANGED <<payment_tickets, ticket_seq, ticketFrame>>

\* create_ticket_for_plan: the ticket is inserted for the plan at its price.
create_ticket_for_plan(user_id, plan_type) ==
    /\ payment_tickets' =
           create_payment_ticket(payment_tickets, ticket_seq + 1, user_id, plan_type,
                                 PLAN_PRICES[plan_type])
    /\ ticket_seq' = ticket_seq + 1

\* ticket_callback_handler: a button of a plan menu on show is pressed.
\* edit_message_text replaces the menu.  After create_ticket_for_plan the
\* handler deletes the menu (deleted = TRUE), unless create_ticket_for_plan
\* raised after its insert (deleted = FALSE): it answers through
\* update.message, which the update of a callback does not carry.
ticket_callback_handler(u, data, deleted) ==
    /\ reqs[u] > 0
    /\ IF ~(users[u].present /\ users[u].is_approved)
       THEN /\ reqs' = [reqs EXCEPT ![u] = @ - 1]
            /\ UNCHANGED <<payment_tickets, ticket_seq>>
            /\ last' = Event("ticket_callback_handler", u, 0, "denied")
       ELSE IF data = "ticket_cancel"
       THEN /\ reqs' = [reqs EXCEPT ![u] = @ - 1]
            /\ UNCHANGED <<payment_tickets, ticket_seq>>
            /\ last' = Event("ticket_callback_handler", u, 0, "cancelled")
       ELSE /\ ticket_seq < MaxTickets
            /\ create_ticket_for_plan(u, plan_map[data])
            /\ reqs' = IF deleted THEN [reqs EXCEPT ![u] = @ - 1] ELSE reqs
            /\ last' = Event("ticket_callback_handler", u, ticket_seq + 1, "created")
    /\ UNCHANGED ticketFrame

\* Database.mark_ticket_completed.
mark_ticket_completed(ticket_id) ==
    /\ payment_tickets' = set_ticket_status(payment_tickets, ticket_id, "completed")
    /\ last' = Event("mark_ticket_completed", 0, ticket_id, "True")
    /\ UNCHANGED <<ticket_seq, reqs, ticketFrame>>

\* Database.mark_ticket_failed.
mark_ticket_failed(ticket_id) ==
    /\ payment_tickets' = set_ticket_status(payment_tickets, ticket_id, "failed")
    /\ last' = Event("mark_ticket_failed", 0, ticket_id, "True")
    /\ UNCHANGED <<ticket_seq, reqs, ticketFrame>>

\* The values of payment_tickets.status (VARCHAR(20), no CHECK) that a caller
\* of update_payment_ticket passes: the states of a ticket.
TicketStatuses == {"pending", "completed", "failed", "closed"}

\* Database.update_payment_ticket(ticket_id, status = ...): UPDATE
\* payment_tickets SET status = $2 WHERE ticket_id = $1.
update_payment_ticket(ticket_id, status) ==
    /\ payment_tickets' = set_ticket_status(payment_tickets, ticket_id, status)
    /\ last' = Event("update_payment_ticket", 0, ticket_id, "True")
    /\ UNCHANGED <<ticket_seq, reqs, ticketFrame>>

\* The store once user 2 has registered, approved or still waiting.
InitTicket ==
    /\ \E approved \in BOOLEAN :
          users = [u \in UserIds |->
                      IF u = admin_id
                      THEN [NewRow("admin") EXCEPT !.is_admin = TRUE, !.is_approved = TRUE]
                      ELSE [NewRow("ann") EXCEPT !.is_approved = approved]]
    /\ fsm = [u \in UserIds |-> "none"]
    /\ conv = [u \in UserIds |-> "END"]
    /\ admin_logs = <<>>
    /\ subscriptions = {} /\ sub_seq = 0
    /\ files = {} /\ file_seq = 0
    /\ now = 0
    /\ payment_tickets = {} /\ ticket_seq = 0
    /\ reqs = [u \in UserIds |-> 0]
    /\ procs = <<>>
    /\ bcast = NoBroadcast
    /\ last = Event("init", 0, 0, "none")

NextTicket ==
    \/ \E u \in UserIds : create_ticket_command(u)
    \/ \E u \in UserIds, d \in MenuData, deleted \in BOOLEAN :
           ticket_callback_handler(u, d, deleted)
    \/ \E t \in 1..MaxTickets : mark_ticket_completed(t)
    \/ \E t \in 1..MaxTickets : mark_ticket_failed(t)
    \/ \E t \in 1..MaxTickets, st \in TicketStatuses : update_payment_ticket(t, st)

SpecTicket == InitTicket /\ [][NextTicket]_vars

\* ------------------------------------------------------------ broadcast
\* What a send to one recipient comes to: the message is sent, or
\* bot.send_message / bot.copy_message raises BotBlocked, ChatNotFound or
\* another exception.
SendOutcomes == {"sent", "BotBlocked", "ChatNotFound", "Exception"}

\* SELECT user_id FROM users WHERE is_approved = TRUE AND is_banned = FALSE.
Recipients(tbl) ==
    {u \in UserIds : tbl[u].present /\ tbl[u].is_approved /\ ~tbl[u].is_banned}

\* The orders in which the SELECT, which has no ORDER BY, returns a set of
\* rows.
Orderings(S) ==
    {q \in [1..Cardinality(S) -> S] :
        \A i, j \in 1..Cardinality(S) : i # j => q[i] # q[j]}

\* What stays as it is in a step of a broadcast.
broadcastFrame == <<users, conv, subscriptions, sub_seq, files, file_seq, now,
                    payment_tickets, ticket_seq, reqs, procs>>

\* broadcast_command: /broadcast, behind the is_admin filter; it calls
\* initiate_broadcast.
broadcast_command(a) ==
    /\ AdminFilter(a)
    /\ fsm' = [fsm EXCEPT ![a] = "SEND_BROADCAST"]
    /\ last' = Event("broadcast_command", a, 0, "ask_message")
    /\ UNCHANGED <<admin_logs, bcast, broadcastFrame>>

\* handle_broadcast_message: the message sent in SEND_BROADCAST is kept in
\* the FSM data, and the preview with its buttons is shown.
handle_broadcast_message(a) ==
    /\ fsm[a] = "SEND_BROADCAST"
    /\ fsm' = [fsm EXCEPT ![a] = "SEND_BROADCAST_CONFIRM"]
    /\ last' = Event("handle_broadcast_message", a, 0, "preview")
    /\ UNCHANGED <<admin_logs, bcast, broadcastFrame>>

\* cancel_broadcast: the button "broadcast_cancel" of the preview.
cancel_broadcast(a) ==
    /\ fsm[a] = "SEND_BROADCAST_CONFIRM"
    /\ fsm' = [fsm EXCEPT ![a] = "none"]
    /\ last' = Event("cancel_broadcast", a, 0, "cancelled")
    /\ UNCHANGED <<admin_logs, bcast, broadcastFrame>>

\* The callback data that confirm_broadcast is registered for: the two
\* buttons of the preview, and the data of its own cancel branch.
ConfirmData == {"broadcast_confirm_now", "broadcast_confirm_schedule",
                "broadcast_confirm_cancel"}

\* confirm_broadcast up to its loop, for a preview with its FSM data: the
\* cancel branch, or the SELECT of the recipients and the counters at 0.
confirm_broadcast(a, data) ==
    /\ fsm[a] = "SEND_BROADCAST_CONFIRM"
    /\ bcast.pc # "sending"
    /\ IF data = "broadcast_confirm_cancel"
       THEN /\ fsm' = [fsm EXCEPT ![a] = "none"]
            /\ UNCHANGED bcast
            /\ last' = Event("confirm_broadcast", a, 0, "cancelled")
       ELSE /\ Len(admin_logs) < MaxLogs
            /\ \E q \in Orderings(Recipients(users)) :
                  bcast' = [NoBroadcast EXCEPT !.pc = "sending", !.admin = a, !.users = q]
            /\ UNCHANGED fsm
            /\ last' = Event("confirm_broadcast", a, 0, "sending")
    /\ UNCHANGED <<admin_logs, broadcastFrame>>

\* The loop with an exception other than BotBlocked and ChatNotFound left
\* uncaught in the body: it ends the loop.
after_send_aborting(b, outcome) ==
    [b EXCEPT !.attempted = Append(@, [user_id |-> b.users[b.i], outcome |-> outcome]),
              !.successful = IF outcome = "sent" THEN @ + 1 ELSE @,
              !.failed = IF outcome # "sent" THEN @ + 1 ELSE @,
              !.i = IF outcome = "Exception" THEN Len(b.users) + 1 ELSE @ + 1]

\* One pass of the loop body: the send to users[i] inside try, successful += 1
\* when it returns, failed += 1 in either except clause; the progress edit
\* is inside a try of its own.
after_send(b, outcome) ==
    [b EXCEPT !.attempted = Append(@, [user_id |-> b.users[b.i], outcome |-> outcome]),
              !.successful = IF outcome = "sent" THEN @ + 1 ELSE @,
              !.failed = IF outcome # "sent" THEN @ + 1 ELSE @,
              !.i = @ + 1]

\* confirm_broadcast's loop: for user in users.
confirm_broadcast_send(outcome) ==
    /\ bcast.pc = "sending" /\ bcast.i <= Len(bcast.users)
    /\ bcast' = after_send(bcast, outcome)
    /\ last' = Event("confirm_broadcast_send", bcast.admin, bcast.users[bcast.i], outcome)
    /\ UNCHANGED <<fsm, admin_logs, broadcastFrame>>

\* confirm_broadcast after its loop: the report text, whose success rate is
\* successful / total_users * 100 and raises ZeroDivisionError for no
\* recipients; then the edit that shows the report, state.finish() and the
\* INSERT INTO admin_logs.
confirm_broadcast_report ==
    /\ bcast.pc = "sending" /\ bcast.i > Len(bcast.users)
    /\ IF Len(bcast.users) = 0
       THEN /\ bcast' = [bcast EXCEPT !.pc = "raised"]
            /\ UNCHANGED <<fsm, admin_logs>>
            /\ last' = Event("confirm_broadcast", bcast.admin, 0, "error")
       ELSE /\ bcast' = [bcast EXCEPT !.pc = "done", !.report = TRUE]
            /\ fsm' = [fsm EXCEPT ![bcast.admin] = "none"]
            /\ admin_logs' = Append(admin_logs, LogRow(bcast.admin, "broadcast", 0))
            /\ last' = Event("confirm_broadcast", bcast.admin, 0, "report")
    /\ UNCHANGED broadcastFrame

\* The rows of the main administrator: as init_tables made it, or banned.
AdminRows ==
    {[NewRow("admin") EXCEPT !.is_admin = TRUE, !.is_approved = TRUE],
     [NewRow("admin") EXCEPT !.is_admin = TRUE, !.is_banned = TRUE]}

\* The rows of the other account: none, waiting, approved, banned.
AccountRows ==
    {NoRow, NewRow("ann"), [NewRow("ann") EXCEPT !.is_approved = TRUE],
     [NewRow("ann") EXCEPT !.is_banned = TRUE]}

\* The store after registrations, approvals and bans.
InitBroadcast ==
    /\ \E r1 \in AdminRows, r2 \in AccountRows :
          users = [u \in UserIds |-> IF u = admin_id THEN r1 ELSE r2]
    /\ fsm = [u \in UserIds |-> "none"]
    /\ conv = [u \in UserIds |-> "END"]
    /\ admin_logs = <<>>
    /\ subscriptions = {} /\ sub_seq = 0
    /\ files = {} /\ file_seq = 0
    /\ now = 0
    /\ payment_tickets = {} /\ ticket_seq = 0
    /\ reqs = <<>>
    /\ procs = <<>>
    /\ bcast = NoBroadcast
    /\ last = Event("init", 0, 0, "none")

NextBroadcast ==
    \/ \E a \in UserIds : broadcast_command(a)
    \/ \E a \in UserIds : handle_broadcast_message(a)
    \/ \E a \in UserIds : cancel_broadcast(a)
    \/ \E a \in UserIds, d \in ConfirmData : confirm_broadcast(a, d)
    \/ \E o \in SendOutcomes : confirm_broadcast_send(o)
    \/ confirm_broadcast_report

SpecBroadcast == InitBroadcast /\ [][NextBroadcast]_vars

\* ------------------------------------------------ claims: account registry
\* An administrator as the handlers can tell one: the configured identity or
\* an account whose row carries the admin flag.
IsAdministrator(u) == is_admin(u) \/ (users[u].present /\ users[u].is_admin)

\* The operations that approve, reject, ban or unban an account.
PrivilegedOps ==
    {"approve_command", "ban_command", "unban_command", "handle_approval_decision"}

\* C7: after any sequence of registrations, approvals, bans, unbans and
\* admin-secret verifications, no account is banned and approved at once.
C7_NeverBannedAndApproved ==
    \A u \in UserIds :
        users[u].present => ~(users[u].is_banned /\ users[u].is_approved)

\* C8: the approval flag of a non-admin account goes from false to true only
\* in an approve or an unban operation; no step of the user's own (/start,
\* sending the profile details) sets it.
C8_ApprovalIsManual ==
    [][\A u \in UserIds :
          (/\ ~(users[u].present /\ users[u].is_approved)
           /\ users'[u].present /\ users'[u].is_approved
           /\ ~users'[u].is_admin)
          => last'.op \in {"approve_command", "unban_command",
                           "handle_approval_decision"}]_vars

\* C9: a privileged operation (approve, reject, ban, unban) invoked by an
\* actor who is not an administrator fails with an authorization error and
\* changes no stored state.
C9_PrivilegedOpsAreGated ==
    [][(last'.op \in PrivilegedOps /\ ~IsAdministrator(last'.actor))
          => /\ last'.result = "unauthorized"
             /\ UNCHANGED <<users, admin_logs, subscriptions, files,
                            payment_tickets>>]_vars

\* ---------------------------------------------- claims: subscription ledger
\* C1: after any sequence of create_subscription calls, run one after the
\* other, every account has at most one active subscription, and an active
\* subscription is the account's most recently created one.
C1_OneActiveAndLatest ==
    \A s \in subscriptions :
        s.is_active =>
            \A t \in subscriptions :
                (t.user_id = s.user_id /\ t # s) => (~t.is_active /\ t.sub_id < s.sub_id)

\* An account with two subscriptions, the later one active and the earlier
\* one deactivated by the second create_subscription.
C1_Witness ==
    /\ last.op = "create_subscription" /\ last.result = "True"
    /\ \E s, t \in subscriptions :
          /\ s.user_id = t.user_id /\ t.sub_id < s.sub_id
          /\ s.is_active /\ ~t.is_active /\ s.sub_id = last.target

\* C4: an upload that exceeds the remaining quota of the account's active
\* subscription, or by an account without an active subscription, is refused
\* with QuotaExceeded: no file record is created and the bytes used stay.
C4_UploadOverQuotaRefused ==
    [][(/\ last'.op = "handle_file_upload"
        /\ ~\E s \in ActiveRows(subscriptions, last'.actor) :
               StorageAvailable(s, last'.target))
          => /\ last'.result = "QuotaExceeded"
             /\ UNCHANGED <<files, subscriptions>>]_vars

\* C2: while calls of create_subscription run concurrently, their UPDATE and
\* INSERT statements interleaved, an account has at most one active
\* subscription at every instant.
C2_OneActiveUnderConcurrency ==
    \A u \in UserIds : Cardinality(ActiveRows(subscriptions, u)) <= 1

\* C3: under any interleaving of reserve, commit and release, each commit
\* following its own successful reserve, the bytes used of an active
\* subscription never exceed its quota.
C3_UsedWithinQuota ==
    \A s \in subscriptions :
        s.is_active => s.storage_used_mib <= s.storage_limit_gb * MiBPerGB

\* ------------------------------------------------ claims: payment tickets
\* C5: of two open-ticket requests of one account for the same plan, the
\* open-ticket check of each running before the insert of the other, exactly
\* one creates a ticket: the account never holds two open tickets of a plan.
C5_OneTicketPerPlanRequest ==
    \A t1, t2 \in payment_tickets :
        (/\ t1.user_id = t2.user_id /\ t1.plan_type = t2.plan_type
         /\ t1.status = "pending" /\ t2.status = "pending") => t1 = t2

\* C6: after any sequence of /ticket commands and plan-selection callbacks,
\* a plan selection made while the account has an open ticket is rejected
\* with Conflict and creates nothing, so that an account has at most one
\* open ticket.
C6_AtMostOneOpenTicket ==
    [][(last'.op = "ticket_callback_handler"
           /\ open_tickets(payment_tickets, last'.actor) # {})
          => /\ last'.result \in {"Conflict", "cancelled", "denied"}
             /\ payment_tickets' = payment_tickets
             /\ Cardinality(open_tickets(payment_tickets', last'.actor)) <= 1]_vars

\* C10: completing a payment ticket sets it completed and, in the same
\* operation, leaves its account with an active subscription of the
\* ticket's plan.
C10_CompleteActivates ==
    [][\A t \in payment_tickets :
          (last'.op = "mark_ticket_completed" /\ last'.target = t.ticket_id)
          => /\ \E c \in payment_tickets' :
                    c.ticket_id = t.ticket_id /\ c.status = "completed"
             /\ \E s \in ActiveRows(subscriptions', t.user_id) :
                    s.plan_type = t.plan_type]_vars

\* C11: no operation that writes a ticket's status takes a ticket from open
\* (pending) straight to closed; a closed ticket was completed or failed
\* before.
C11_NoOpenToClosed ==
    [][\A t \in payment_tickets, c \in payment_tickets' :
          (t.ticket_id = c.ticket_id /\ t.status = "pending") => c.status # "closed"]_vars

\* C12: create_subscription leaves no partial state: when it fails after its
\* deactivate step, the subscriptions that were active are still active.
C12_FailedActivateKeepsActive ==
    [][(last'.op = "create_subscription" /\ last'.result = "False")
          => \A s \in subscriptions : s.is_active => s \in subscriptions']_vars

\* C13: renew_subscription on an account with an active subscription sets
\* the expiry to the old expiry plus the duration when the old expiry is in
\* the future, and to now plus the duration when the subscription has
\* expired, never to the old expiry plus the duration then.
C13_RenewAntiStacking ==
    [][(last'.op = "renew_subscription" /\ last'.result = "True")
          => \A s \in ActiveRows(subscriptions, last'.actor) :
                \E r \in ActiveRows(subscriptions', last'.actor) :
                    /\ r.sub_id = s.sub_id
                    /\ s.expiry_date > now =>
                           r.expiry_date = s.expiry_date + last'.target.duration_days
                    /\ s.expiry_date < now =>
                           /\ r.expiry_date = now + last'.target.duration_days
                           /\ r.expiry_date # s.expiry_date + last'.target.duration_days
                    /\ s.expiry_date = now =>
                           r.expiry_date = now + last'.target.duration_days]_vars

\* A renewal has restarted from now a subscription that had expired.
C13_Witness ==
    /\ last.op = "renew_subscription" /\ last.result = "True"
    /\ last.target.current < now
    /\ \E s \in ActiveRows(subscriptions, last.actor) :
          s.expiry_date = now + last.target.duration_days

\* C14: a release never drives the bytes used below zero, whatever the order
\* of the calls and however often a release is repeated.
C14_UsedNeverNegative ==
    \A s \in subscriptions : s.storage_used_mib >= 0

\* A release larger than what was left has cleared the usage of the account's
\* active subscription.
C14_Witness ==
    /\ last.op = "release"
    /\ \E s \in ActiveRows(subscriptions, last.actor) : s.storage_used_mib = 0

\* C15: add_file of a file followed by delete_file of that file, by its owner
\* or without a caller, removes the file record and leaves the bytes used of
\* the owner's active subscription as they were before the add.
C15_DeleteUndoesAdd ==
    \A u \in UserIds, z \in FileSizes : \A caller \in {0, u} :
        users[u].present =>
            LET added == insert_file(files, file_seq, u, z)
                charged == update_storage_usage(subscriptions, u, z, "add")
                file == CHOOSE f \in added : f.file_id = file_seq + 1
            IN  /\ delete_file_permitted(added, file.file_id, caller)
                /\ delete_file_rows(added, file.file_id) = files
                /\ delete_file_usage(charged, file) = subscriptions

\* The owner has deleted the uploaded file, and the active subscription that
\* was charged for it is back at nothing used.
C15_Witness ==
    /\ last.op = "delete_file" /\ last.result = "True" /\ last.actor # 0
    /\ file_seq > 0 /\ files = {}
    /\ \E s \in ActiveRows(subscriptions, last.actor) : s.storage_used_mib = 0

\* C16: check_storage_available returns true exactly when the account has an
\* active subscription and bytes used plus the size is at most the quota,
\* false otherwise, and in every case leaves the stored state unchanged.
C16_ReserveExactAndPure ==
    [][last'.op = "check_storage_available"
          => /\ last'.result \in {"True", "False"}
             /\ last'.result = "True" <=>
                    \E s \in ActiveRows(subscriptions, last'.actor) :
                        s.storage_used_mib + last'.target <= s.storage_limit_gb * MiBPerGB
             /\ UNCHANGED <<users, admin_logs, subscriptions, sub_seq, files, file_seq,
                            payment_tickets, ticket_seq>>]_vars

\* check_storage_available has answered true for a size that fills the
\* quota of a partly used subscription to the last MiB.
C16_Witness ==
    /\ last.op = "check_storage_available" /\ last.result = "True"
    /\ \E s \in ActiveRows(subscriptions, last.actor) :
          /\ s.storage_used_mib > 0
          /\ s.storage_used_mib + last.target = s.storage_limit_gb * MiBPerGB

\* C17: for an existing account, a ban leaves banned = true and approved =
\* false whatever the flags were, and an unban leaves banned = false and
\* approved = true.
C17_BanUnbanFlags ==
    [][/\ (last'.op = "ban_command" /\ users[last'.target].present)
              => /\ users'[last'.target].present
                 /\ users'[last'.target].is_banned
                 /\ ~users'[last'.target].is_approved
       /\ (last'.op = "unban_command" /\ users[last'.target].present)
              => /\ users'[last'.target].present
                 /\ ~users'[last'.target].is_banned
                 /\ users'[last'.target].is_approved]_vars

\* Account 2, an administrator by the secret code and so approved, has been
\* banned: it reads banned and not approved.
C17_Witness ==
    /\ last.op = "ban_command" /\ last.target = 2
    /\ users[2].present /\ users[2].is_admin
    /\ users[2].is_banned /\ ~users[2].is_approved

\* C18: approve, ban and unban of an identity that has no account change
\* nothing, neither an account row nor an audit-log row, and signal NotFound.
C18_UnknownIdentityIsNoOp ==
    [][(/\ last'.op \in {"approve_command", "ban_command", "unban_command"}
        /\ ~users[last'.target].present)
          => /\ last'.result = "NotFound"
             /\ UNCHANGED <<users, admin_logs>>]_vars

\* C19: an account row is deleted only by the rejection of a registration
\* that is still pending: no operation removes the row of an account that
\* is approved or banned.
C19_OnlyPendingIsDeleted ==
    [][\A u \in UserIds :
          (users[u].present /\ ~users'[u].present)
          => /\ ~users[u].is_approved /\ ~users[u].is_banned
             /\ last'.op = "handle_approval_decision" /\ last'.result = "rejected"]_vars

\* The operations of an administrator that write the users table or the
\* status of a ticket.
LoggedOps ==
    PrivilegedOps \cup {"verify_secret", "admin_start", "mark_ticket_completed",
                        "mark_ticket_failed"}

\* C20: every privileged mutation appends an audit-log row with its actor,
\* its action and its target.
C20_PrivilegedMutationIsLogged ==
    [][(last'.op \in LoggedOps /\ <<users, payment_tickets>>' # <<users, payment_tickets>>)
          => /\ Len(admin_logs') = Len(admin_logs) + 1
             /\ admin_logs'[Len(admin_logs')].admin_id = last'.actor
             /\ admin_logs'[Len(admin_logs')].target_user_id = last'.target]_vars

\* ---------------------------------------------------- claims: broadcast
\* C21: in a broadcast a send is attempted to every recipient of the list,
\* in the list's order, whatever the sends before it came to: blocked, chat
\* not found or any other exception.
C21_BroadcastIsolatesFailures ==
    /\ bcast.pc = "sending" =>
           /\ bcast.i = Len(bcast.attempted) + 1
           /\ bcast.i <= Len(bcast.users) + 1
    /\ bcast.pc \in {"done", "raised"} => Len(bcast.attempted) = Len(bcast.users)
    /\ \A k \in 1..Len(bcast.attempted) : bcast.attempted[k].user_id = bcast.users[k]

\* A broadcast to two recipients has ended: the first send raised an
\* exception that is neither BotBlocked nor ChatNotFound, and the second
\* recipient was sent the message.
C21_Witness ==
    /\ bcast.pc = "done" /\ Len(bcast.users) = 2
    /\ bcast.attempted[1].outcome = "Exception"
    /\ bcast.attempted[2].outcome = "sent"
    /\ bcast.attempted[2].user_id = bcast.users[2]

\* C30: when confirm_broadcast ends after its loop, for any recipient set,
\* the empty one too, the report has been produced with successful + failed
\* = the number of recipients, the broadcast is in the admin log and the
\* admin's FSM state is cleared.
C30_BroadcastEndsWithReport ==
    [][(bcast.pc = "sending" /\ bcast'.pc # "sending")
          => /\ bcast'.report
             /\ bcast'.successful + bcast'.failed = Len(bcast'.users)
             /\ Len(admin_logs') = Len(admin_logs) + 1
             /\ admin_logs'[Len(admin_logs')] = LogRow(bcast.admin, "broadcast", 0)
             /\ fsm'[bcast.admin] = "none"]_vars

\* ------------------------------------------------ claims: expiry sweep
\* C22: cleanup_expired_subscriptions deactivates exactly the subscriptions
\* that are active with an expiry earlier than now, leaves every other
\* subscription and every other field as it was, and returns the number of
\* subscriptions it deactivated.
C22_SweepDeactivatesExactlyExpired ==
    [][last'.op = "cleanup_expired_subscriptions"
          => /\ \A s \in subscriptions :
                    IF s.is_active /\ s.expiry_date < now
                    THEN [s EXCEPT !.is_active = FALSE] \in subscriptions'
                    ELSE s \in subscriptions'
             /\ Cardinality(subscriptions') = Cardinality(subscriptions)
             /\ last'.result = "count"
             /\ last'.target =
                    Cardinality({s \in subscriptions : s.is_active /\ s.expiry_date < now})
             /\ UNCHANGED <<users, admin_logs, sub_seq, files, file_seq, now,
                            payment_tickets, ticket_seq>>]_vars

\* A sweep has deactivated one subscription, and has left active one that
\* expires at the very instant of the sweep.
C22_Witness ==
    /\ last.op = "cleanup_expired_subscriptions" /\ last.target = 1
    /\ \E s, t \in subscriptions :
          /\ ~s.is_active /\ s.expiry_date < now
          /\ t.is_active /\ t.expiry_date = now

RECURSIVE SumSizes(_)
SumSizes(fs) ==
    IF fs = {} THEN 0
    ELSE LET f == CHOOSE g \in fs : TRUE IN f.file_size + SumSizes(fs \ {f})

\* C25: after any sequence of add_file, delete_file and create_subscription,
\* the bytes used of an account's active subscription equal the total size
\* of the file records the account holds, the files added before that
\* subscription was created or while none was active included.
C25_UsedEqualsFilesHeld ==
    \A s \in subscriptions :
        s.is_active =>
            s.storage_used_mib = SumSizes({f \in files : f.user_id = s.user_id})

\* -------------------------------------------- claims: payment tickets (2)
\* C26: mark_ticket_completed and mark_ticket_failed change the status only
\* of a ticket that is still pending: a completed ticket is never failed
\* later, and a failed ticket is never completed later.
C26_TerminalOutcomesExclusive ==
    [][last'.op \in {"mark_ticket_completed", "mark_ticket_failed"}
          => \A t \in payment_tickets, c \in payment_tickets' :
                (t.ticket_id = c.ticket_id /\ t.status # "pending")
                    => c.status = t.status]_vars

\* ---------------------------------------- claims: subscription ledger (2)
\* C27: two renew_subscription calls for one account, with d1 and d2 days,
\* each reading the current expiry before either writes, leave the expiry at
\* max(now, old expiry) + d1 + d2: no renewal is lost.
C27_NoRenewalLost ==
    \A p, q \in Procs :
        (/\ p # q
         /\ procs[p].pc = "returned" /\ procs[q].pc = "returned"
         /\ procs[p].user_id = procs[q].user_id
         /\ procs[p].arg.current = procs[q].arg.current)
        => \A s \in ActiveRows(subscriptions, procs[p].user_id) :
               s.expiry_date =
                   (IF procs[p].arg.current > now THEN procs[p].arg.current ELSE now)
                       + procs[p].arg.duration_days + procs[q].arg.duration_days

C29_UnbanRestoresApproval ==
    \A u \in UserIds :
        users[u].present =>
            db_unban_user(db_ban_user(users, u), u)[u].is_approved = users[u].is_approved

\* C29, amended: a ban followed by an unban leaves an account approved and
\* not banned whatever its approval flag was before the ban (an account that
\* was pending is approved after the unban), and leaves its other fields and
\* the other accounts as they were.
C29_BanThenUnbanApproves ==
    \A u \in UserIds :
        users[u].present =>
            LET after == db_unban_user(db_ban_user(users, u), u) IN
            /\ after[u].is_approved /\ ~after[u].is_banned
            /\ after[u].present
            /\ after[u].is_admin = users[u].is_admin
            /\ after[u].username = users[u].username
            /\ \A v \in UserIds \ {u} : after[v] = users[v]

\* Account 2 registered and never sent its details, no approval was logged;
\* it was banned and then unbanned, and now it is approved.
C29_Witness ==
    /\ last.op = "unban_command" /\ last.target = 2
    /\ admin_logs = <<LogRow(admin_id, "user_ban", 2), LogRow(admin_id, "user_unban", 2)>>
    /\ conv[2] = "WAITING_FOR_DETAILS"
    /\ users[2].present /\ ~users[2].is_admin
    /\ users[2].is_approved /\ ~users[2].is_banned

====
